---- MODULE Spec2Model ----
(***************************************************************************)
(* A model of the Todo-App repository: the PostgreSQL store behind         *)
(* lib/pg-persistence.js, the PgPersistence service methods, the dbQuery   *)
(* connection life cycle of lib/db-query.js, and the Express route         *)
(* handlers of todos.js.                                                   *)
(*                                                                         *)
(* Three specifications share the module:                                  *)
(*   Spec      sequences of PgPersistence calls by any identities, each    *)
(*             call running to completion on the store;                    *)
(*   SpecDb    concurrent dbQuery calls, one step per await;               *)
(*   SpecHttp  concurrent HTTP requests, one step per store round trip.    *)
(***************************************************************************)
EXTENDS Integers, Sequences, FiniteSets, Bags, TLC

VARIABLES db, calls, clients, sessions, lastSignIn, reqs, resp, started

vars == <<db, calls, clients, sessions, lastSignIn, reqs, resp, started>>

(***************************************************************************)
(* Bounds of the model.                                                    *)
(***************************************************************************)
\* The two id serials (todolists.id, todos.id) are drawn at most this many
\* times in all: the number of INSERT statements of a behaviour.
MaxInserts == 4
\* The number of dbQuery calls of a behaviour of SpecDb.
MaxDbCalls == 3

(***************************************************************************)
(* Values.                                                                 *)
(***************************************************************************)
\* The rows of the users table: the identities that can sign in.
Usernames == {"alice", "bob"}

\* JavaScript's undefined where a row or a result is expected.
Undefined == [undefined |-> TRUE]

\* JavaScript's undefined where a username is expected: the username of a
\* session nobody signed in to.  The store receives it as NULL.
NoUsername == "(undefined)"

\* A string is the sequence of its character codes: "a", "B", "b".
ListTitles == {<<97>>, <<66>>, <<98>>}
TodoTitles == {<<97>>, <<66>>}

\* SQL lower(): the upper-case letters A..Z are moved to a..z.
lower(s) == [i \in 1..Len(s) |-> IF s[i] \in 65..90 THEN s[i] + 32 ELSE s[i]]

\* The store's comparison of two strings, s <= t, character by character.
RECURSIVE StrLeq(_, _)
StrLeq(s, t) ==
  IF s = <<>> THEN TRUE
  ELSE IF t = <<>> THEN FALSE
  ELSE IF s[1] < t[1] THEN TRUE
  ELSE IF s[1] > t[1] THEN FALSE
  ELSE StrLeq(Tail(s), Tail(t))

\* The sequences that hold each element of the finite set S exactly once.
Perms(S) ==
  LET n == Cardinality(S) IN
  {f \in [1..n -> S] : \A i, j \in 1..n : i # j => f[i] # f[j]}

\* The row sequences a SELECT without ORDER BY may deliver for the row set S.
Unordered(S) == Perms(S)

\* WHERE username = $n: a NULL parameter (an undefined username) matches no row.
UsernameIs(row, username) == username # NoUsername /\ row.username = username

(***************************************************************************)
(* The store.  db.todolists and db.todos are the tables' rows; listSerial  *)
(* and todoSerial are the last values drawn from the id serials.  The      *)
(* field creator of a row is history, not a column: the identity the       *)
(* inserting service was constructed with.                                 *)
(***************************************************************************)
EmptyDb == [todolists |-> {}, todos |-> {}, listSerial |-> 0, todoSerial |-> 0]

\* The outcome of a statement or of a service call.
Return(v) == [kind |-> "return", val |-> v]
Throw(e) == [kind |-> "throw", error |-> e]

\* The store's errors, by the text of their message.
UniqueViolation == [message |-> "duplicate key value violates unique constraint"]
ForeignKeyViolation == [message |-> "violates foreign key constraint"]
NotNullViolation == [message |-> "violates not-null constraint"]

\* Schema: UNIQUE (username, title) on todolists.  Another row of the same
\* username holds the title.
UniqueTitleViolated(d, id, title, username) ==
  \E l \in d.todolists : l.id # id /\ l.title = title /\ l.username = username

\* Schema: todos.todolist_id REFERENCES todolists (id).
ForeignKeyViolated(d, todoListId) ==
  ~ \E l \in d.todolists : l.id = todoListId

\* The foreign key declared without ON DELETE CASCADE would keep the todos
\* of a deleted list.
OnDeleteNoAction(d, deletedIds) == d.todos

\* Schema: ON DELETE CASCADE of todos.todolist_id.
OnDeleteCascade(d, deletedIds) ==
  {t \in d.todos : t.todolist_id \notin deletedIds}

(***************************************************************************)
(* PgPersistence: the read methods.  Each gives the set of values the call *)
(* can return on store d for a service constructed with username.          *)
(***************************************************************************)
LowerTitleLeq(r, s) == StrLeq(lower(r.title), lower(s.title))

\* ORDER BY done ASC, lower(title) ASC: false sorts before true.
DoneThenLowerTitleLeq(r, s) ==
  \/ ~r.done /\ s.done
  \/ r.done = s.done /\ StrLeq(lower(r.title), lower(s.title))

\* The row sequences a SELECT may deliver for the row set S under an ORDER
\* BY: every enumeration of S that respects the order (rows the order does
\* not separate come in any order).
OrderedByLowerTitle(S) ==
  {f \in Perms(S) : \A i, j \in 1..Len(f) : i < j => LowerTitleLeq(f[i], f[j])}

OrderedByDoneThenLowerTitle(S) ==
  {f \in Perms(S) :
     \A i, j \in 1..Len(f) : i < j => DoneThenLowerTitleLeq(f[i], f[j])}

\* A slip of isDoneTodoList: the length test left out.
isDoneTodoList_every(todoList) ==
  \A i \in 1..Len(todoList.todos) : todoList.todos[i].done

isDoneTodoList(todoList) ==
  Len(todoList.todos) > 0
    /\ \A i \in 1..Len(todoList.todos) : todoList.todos[i].done

hasUndoneTodos(todoList) ==
  \E i \in 1..Len(todoList.todos) : ~todoList.todos[i].done

NotDoneTodoList(todoList) == ~isDoneTodoList(todoList)

\* A slip of _partitionTodoLists: the two groups concatenated the other way.
_partitionTodoLists_doneFirst(todoLists) ==
  SelectSeq(todoLists, isDoneTodoList) \o SelectSeq(todoLists, NotDoneTodoList)

_partitionTodoLists(todoLists) ==
  LET done == SelectSeq(todoLists, isDoneTodoList)
      undone == SelectSeq(todoLists, NotDoneTodoList)
  IN undone \o done

\* A fetched list row with its todos property set.
WithTodos(row, todoRows) ==
  [id |-> row.id, title |-> row.title, username |-> row.username,
   creator |-> row.creator, todos |-> todoRows]

sortedTodoLists(d, username) ==
  LET listRows == {l \in d.todolists : UsernameIs(l, username)}
      todoRows == {t \in d.todos : UsernameIs(t, username)}
  IN {_partitionTodoLists(
        [i \in 1..Len(allTodoLists) |->
           WithTodos(allTodoLists[i],
                     SelectSeq(allTodos,
                               LAMBDA todo : allTodoLists[i].id = todo.todolist_id))])
       : allTodoLists \in OrderedByLowerTitle(listRows),
         allTodos \in Unordered(todoRows)}

\* A slip of sortedTodos: ORDER BY lower(title) ASC alone.
sortedTodos_byTitle(d, username, todoList) ==
  OrderedByLowerTitle(
    {t \in d.todos : t.todolist_id = todoList.id /\ UsernameIs(t, username)})

sortedTodos(d, username, todoList) ==
  OrderedByDoneThenLowerTitle(
    {t \in d.todos : t.todolist_id = todoList.id /\ UsernameIs(t, username)})

\* A slip of loadTodoList: FIND_TODOLIST without "AND username = $2".
loadTodoList_anyUsername(d, username, todoListId) ==
  LET listRows == {l \in d.todolists : l.id = todoListId}
      todoRows == {t \in d.todos : t.todolist_id = todoListId /\ UsernameIs(t, username)}
  IN IF listRows = {} THEN {Undefined}
     ELSE {WithTodos(l, ts) : l \in listRows, ts \in Unordered(todoRows)}

loadTodoList(d, username, todoListId) ==
  LET listRows == {l \in d.todolists : l.id = todoListId /\ UsernameIs(l, username)}
      todoRows == {t \in d.todos : t.todolist_id = todoListId /\ UsernameIs(t, username)}
  IN IF listRows = {} THEN {Undefined}
     ELSE {WithTodos(l, ts) : l \in listRows, ts \in Unordered(todoRows)}

loadTodo(d, username, todoListId, todoId) ==
  LET rows == {t \in d.todos :
                 t.todolist_id = todoListId /\ t.id = todoId /\ UsernameIs(t, username)}
  IN IF rows = {} THEN {Undefined} ELSE rows

\* A slip of existsTodoListTitle: FIND_TODOLIST without "AND username = $2".
existsTodoListTitle_anyUsername(d, username, title) ==
  Cardinality({l \in d.todolists : l.title = title}) > 0

existsTodoListTitle(d, username, title) ==
  Cardinality({l \in d.todolists : l.title = title /\ UsernameIs(l, username)}) > 0

(***************************************************************************)
(* PgPersistence: the write methods.  Each gives [db, out]: the store      *)
(* after the call on store d and the call's outcome.                       *)
(***************************************************************************)
\* String(error) of a store error, as the parts of its text.
ErrorString(error) == <<"error: ", error.message, " \"constraint_name\"">>

\* /duplicate key value violates unique constraint/.test(String(error))
isUniqueConstraintViolation(error) ==
  \E i \in 1..Len(ErrorString(error)) :
    ErrorString(error)[i] = "duplicate key value violates unique constraint"

\* A slip of toggleDoneTodo: TOGGLE_DONE without "todolist_id = $1 AND".
toggleDoneTodo_anyList(d, username, todoListId, todoId) ==
  LET matched == {t \in d.todos : t.id = todoId /\ UsernameIs(t, username)}
  IN [db |-> [d EXCEPT !.todos =
                 {IF t \in matched THEN [t EXCEPT !.done = ~t.done] ELSE t : t \in d.todos}],
      out |-> Return(Cardinality(matched) > 0)]

toggleDoneTodo(d, username, todoListId, todoId) ==
  LET matched == {t \in d.todos :
                    t.todolist_id = todoListId /\ t.id = todoId /\ UsernameIs(t, username)}
  IN [db |-> [d EXCEPT !.todos =
                 {IF t \in matched THEN [t EXCEPT !.done = ~t.done] ELSE t : t \in d.todos}],
      out |-> Return(Cardinality(matched) > 0)]

removeTodoFromTodoList(d, username, todoListId, todoId) ==
  LET matched == {t \in d.todos :
                    t.todolist_id = todoListId /\ t.id = todoId /\ UsernameIs(t, username)}
  IN [db |-> [d EXCEPT !.todos = d.todos \ matched],
      out |-> Return(Cardinality(matched) > 0)]

\* A slip of markAllDone: "AND NOT done" added to MARK_ALL_DONE, so only
\* the rows that change count.
markAllDone_notDoneOnly(d, username, todoListId) ==
  LET matched == {t \in d.todos :
                    t.todolist_id = todoListId /\ UsernameIs(t, username) /\ ~t.done}
  IN [db |-> [d EXCEPT !.todos =
                 {IF t \in matched THEN [t EXCEPT !.done = TRUE] ELSE t : t \in d.todos}],
      out |-> Return(Cardinality(matched) > 0)]

markAllDone(d, username, todoListId) ==
  LET matched == {t \in d.todos : t.todolist_id = todoListId /\ UsernameIs(t, username)}
  IN [db |-> [d EXCEPT !.todos =
                 {IF t \in matched THEN [t EXCEPT !.done = TRUE] ELSE t : t \in d.todos}],
      out |-> Return(Cardinality(matched) > 0)]

\* The id serial is drawn before the constraints are checked, so a rejected
\* insert uses up an id.  done defaults to false.
addTodo(d, username, todoTitle, todoListId) ==
  LET id == d.todoSerial + 1
      drawn == [d EXCEPT !.todoSerial = id]
      row == [id |-> id, title |-> todoTitle, done |-> FALSE,
              todolist_id |-> todoListId, username |-> username, creator |-> username]
  IN IF username = NoUsername THEN [db |-> drawn, out |-> Throw(NotNullViolation)]
     ELSE IF ForeignKeyViolated(d, todoListId)
       THEN [db |-> drawn, out |-> Throw(ForeignKeyViolation)]
     ELSE [db |-> [drawn EXCEPT !.todos = d.todos \cup {row}],
           out |-> Return(Cardinality({row}) > 0)]

\* A slip of deleteTodoList: DELETE FROM todos WHERE todolist_id = $1 AND
\* username = $2, which empties the list and leaves its row.
deleteTodoList_todosOnly(d, username, todoListId) ==
  LET matched == {t \in d.todos : t.todolist_id = todoListId /\ UsernameIs(t, username)}
  IN [db |-> [d EXCEPT !.todos = d.todos \ matched],
      out |-> Return(Cardinality(matched) > 0)]

deleteTodoList(d, username, todoListId) ==
  LET matched == {l \in d.todolists : l.id = todoListId /\ UsernameIs(l, username)}
  IN [db |-> [d EXCEPT !.todolists = d.todolists \ matched,
                       !.todos = OnDeleteCascade(d, {l.id : l \in matched})],
      out |-> Return(Cardinality(matched) > 0)]

\* INSERT INTO todolists (title, username) VALUES ($1, $2)
InsertTodoList(d, username, title) ==
  LET id == d.listSerial + 1
      drawn == [d EXCEPT !.listSerial = id]
      row == [id |-> id, title |-> title, username |-> username, creator |-> username]
  IN IF username = NoUsername THEN [db |-> drawn, out |-> Throw(NotNullViolation)]
     ELSE IF UniqueTitleViolated(d, id, title, username)
       THEN [db |-> drawn, out |-> Throw(UniqueViolation)]
     ELSE [db |-> [drawn EXCEPT !.todolists = d.todolists \cup {row}],
           out |-> Return(Cardinality({row}))]

\* A slip of createTodoList: the store's error is not caught.
createTodoList_noCatch(d, username, title) ==
  LET results == InsertTodoList(d, username, title)
  IN IF results.out.kind = "return"
       THEN [db |-> results.db, out |-> Return(results.out.val > 0)]
     ELSE results

createTodoList(d, username, title) ==
  LET results == InsertTodoList(d, username, title)
  IN IF results.out.kind = "return"
       THEN [db |-> results.db, out |-> Return(results.out.val > 0)]
     ELSE IF isUniqueConstraintViolation(results.out.error)
       THEN [db |-> results.db, out |-> Return(FALSE)]
     ELSE results

setTitle(d, username, todoListId, title) ==
  LET matched == {l \in d.todolists : l.id = todoListId /\ UsernameIs(l, username)}
  IN IF \E l \in matched : UniqueTitleViolated(d, l.id, title, l.username)
       THEN [db |-> d, out |-> Throw(UniqueViolation)]
     ELSE [db |-> [d EXCEPT !.todolists =
                     {IF l \in matched THEN [l EXCEPT !.title = title] ELSE l
                        : l \in d.todolists}],
           out |-> Return(Cardinality(matched) > 0)]

(***************************************************************************)
(* dbQuery.  calls[c] is the c-th call of dbQuery: where it stands (pc) and,*)
(* once it is over, what reached its caller (out).  clients is the set of  *)
(* connections that are open: client c is the Client that call c made.     *)
(***************************************************************************)
DbCalls == 1..MaxDbCalls

NotCalled == [pc |-> "not called", out |-> Return(Undefined)]

\* What the caller of dbQuery receives when the store rejects the statement
\* and when no connection can be made.
QueryError == [message |-> "the store rejected the statement"]
ConnectError == [message |-> "connection refused"]

\* let client = new Client(CONNECTION); the call is suspended in
\* await client.connect().
dbQuery_call(c) ==
  /\ calls[c].pc = "not called"
  /\ calls' = [calls EXCEPT ![c].pc = "connect"]
  /\ UNCHANGED clients

\* client.connect() resolves: the connection is open; logQuery runs and the
\* call is suspended in await client.query(statement, parameters).
dbQuery_connected(c) ==
  /\ calls[c].pc = "connect"
  /\ clients' = clients \cup {c}
  /\ calls' = [calls EXCEPT ![c].pc = "query"]

\* client.connect() rejects: the await throws out of dbQuery.
dbQuery_connectFailed(c) ==
  /\ calls[c].pc = "connect"
  /\ calls' = [calls EXCEPT ![c] = [pc |-> "over", out |-> Throw(ConnectError)]]
  /\ UNCHANGED clients

\* client.query() resolves: the call is suspended in await client.end().
dbQuery_queried(c) ==
  /\ calls[c].pc = "query"
  /\ calls' = [calls EXCEPT ![c].pc = "end"]
  /\ UNCHANGED clients

\* client.query() rejects: the await throws out of dbQuery; the statements
\* after it (await client.end(); return result) do not run.
dbQuery_queryFailed(c) ==
  /\ calls[c].pc = "query"
  /\ calls' = [calls EXCEPT ![c] = [pc |-> "over", out |-> Throw(QueryError)]]
  /\ UNCHANGED clients

\* client.end() resolves: the connection is closed; return result.
dbQuery_ended(c) ==
  /\ calls[c].pc = "end"
  /\ clients' = clients \ {c}
  /\ calls' = [calls EXCEPT ![c] = [pc |-> "over", out |-> Return([rows |-> <<>>])]]

DbFrame == UNCHANGED <<db, sessions, lastSignIn, reqs, resp, started>>

DbCall == \E c \in DbCalls : dbQuery_call(c) /\ DbFrame
DbConnected == \E c \in DbCalls : dbQuery_connected(c) /\ DbFrame
DbConnectFailed == \E c \in DbCalls : dbQuery_connectFailed(c) /\ DbFrame
DbQueried == \E c \in DbCalls : dbQuery_queried(c) /\ DbFrame
DbQueryFailed == \E c \in DbCalls : dbQuery_queryFailed(c) /\ DbFrame
DbEnded == \E c \in DbCalls : dbQuery_ended(c) /\ DbFrame

NextDb ==
  \/ DbCall
  \/ DbConnected
  \/ DbConnectFailed
  \/ DbQueried
  \/ DbQueryFailed
  \/ DbEnded

(***************************************************************************)
(* Spec: sequences of service calls by any identities, each call running   *)
(* to completion on the store.  One action per PgPersistence method that   *)
(* writes; a read method changes nothing, so a call of it is a step that   *)
(* leaves every variable unchanged, and what it returns in a state is the  *)
(* value of its operator there.                                            *)
(***************************************************************************)
Others == <<calls, clients, sessions, lastSignIn, reqs, resp, started>>

SerialsLeft(d) == d.listSerial + d.todoSerial < MaxInserts

\* The ids a caller may pass: every id drawn so far and one never drawn.
ArgListIds == 1..(db.listSerial + 1)
ArgTodoIds == 1..(db.todoSerial + 1)

Svc_toggleDoneTodo ==
  \E u \in Usernames, l \in ArgListIds, t \in ArgTodoIds :
    db' = toggleDoneTodo(db, u, l, t).db /\ UNCHANGED Others

Svc_removeTodoFromTodoList ==
  \E u \in Usernames, l \in ArgListIds, t \in ArgTodoIds :
    db' = removeTodoFromTodoList(db, u, l, t).db /\ UNCHANGED Others

Svc_markAllDone ==
  \E u \in Usernames, l \in ArgListIds :
    db' = markAllDone(db, u, l).db /\ UNCHANGED Others

Svc_addTodo ==
  \E u \in Usernames, l \in ArgListIds, title \in TodoTitles :
    SerialsLeft(db) /\ db' = addTodo(db, u, title, l).db /\ UNCHANGED Others

Svc_deleteTodoList ==
  \E u \in Usernames, l \in ArgListIds :
    db' = deleteTodoList(db, u, l).db /\ UNCHANGED Others

Svc_createTodoList ==
  \E u \in Usernames, title \in ListTitles :
    SerialsLeft(db) /\ db' = createTodoList(db, u, title).db /\ UNCHANGED Others

Svc_setTitle ==
  \E u \in Usernames, l \in ArgListIds, title \in ListTitles :
    db' = setTitle(db, u, l, title).db /\ UNCHANGED Others

(***************************************************************************)
(* The HTTP layer of todos.js.  sessions[sid] is the session object that   *)
(* express-session hands to the requests of cookie sid.  reqs is the bag   *)
(* of requests that are suspended in an await of a store call; a request   *)
(* runs from one await to the next in one step.  resp is the response sent *)
(* last.  started counts the requests that arrived.  lastSignIn is         *)
(* history: per session, the username of the latest sign-in submission     *)
(* that authenticated() accepted, or NoUsername after a later sign-out     *)
(* request.                                                                *)
(***************************************************************************)
\* The number of requests of a behaviour of SpecHttp.
MaxRequests == 4
\* The number of requests suspended in a store call at a time.
MaxInFlight == 2

\* isLength({ max: 100 })
MaxTitleLength == 100

SessionIds == {"s1", "s2"}

NewSession == [username |-> NoUsername, signedIn |-> FALSE]

\* The session store (connect-loki) outlives the process.  When the server
\* starts, it holds a session that alice signed in to; the other session is
\* new.
StoredSessions ==
  [sid \in SessionIds |->
     IF sid = "s1" THEN [username |-> "alice", signedIn |-> TRUE] ELSE NewSession]

\* The users table: the password column holds the bcrypt hash.
bcryptHash(password) == [bcrypt |-> password]
UsersTable ==
  [u \in Usernames |->
     IF u = "alice" THEN bcryptHash("alicepw") ELSE bcryptHash("bobpw")]

\* bcrypt.compare(password, hash)
bcryptCompare(password, hash) == hash = bcryptHash(password)

\* A slip of authenticated: FIND_PASSWORD without "WHERE username = $1", so
\* the password is compared with the hash of the first row, alice's.
authenticated_firstRow(username, password) ==
  LET rows == Usernames
  IN IF Cardinality(rows) = 0 THEN FALSE
     ELSE bcryptCompare(password, UsersTable["alice"])

authenticated(username, password) ==
  LET rows == {u \in Usernames : u = username}
  IN IF Cardinality(rows) = 0 THEN FALSE
     ELSE bcryptCompare(password, UsersTable[username])

\* What a client may type into the forms.
FormListTitles == {<<32>>, <<97>>, <<32, 66>>}
FormTodoTitles == {<<32>>, <<97>>}
FormUsernames == {"alice", " bob ", "carol"}
FormPasswords == {"alicepw", "bobpw"}

\* String.prototype.trim and the validator's trim(): the blanks at both ends
\* are dropped.
RECURSIVE trimStart(_)
trimStart(s) == IF s # <<>> /\ s[1] = 32 THEN trimStart(Tail(s)) ELSE s
RECURSIVE trimEnd(_)
trimEnd(s) ==
  IF s # <<>> /\ s[Len(s)] = 32 THEN trimEnd(SubSeq(s, 1, Len(s) - 1)) ELSE s
trim(s) == trimEnd(trimStart(s))

\* req.body.username.trim() on the usernames a client may type.
trimUsername(s) == IF s = " bob " THEN "bob" ELSE s

Flash(type, msg) == [type |-> type, msg |-> msg]

\* The validation chain of a title field: trim, isLength({ min: 1 }),
\* isLength({ max: 100 }).  The messages of the checks that fail, in order.
titleErrors(title, required, tooLong) ==
  (IF Len(title) < 1 THEN <<Flash("error", required)>> ELSE <<>>)
    \o (IF Len(title) > MaxTitleLength THEN <<Flash("error", tooLong)>> ELSE <<>>)

listTitleErrors(title) ==
  titleErrors(title, "The list title is required.",
              "List title must be between 1 and 100 characters.")

todoTitleErrors(title) ==
  titleErrors(title, "The todo title is required.",
              "Todo title must be between 1 and 100 characters.")

\* A request as it leaves the two app.use middlewares: res.locals.store is a
\* PgPersistence with the session's username, res.locals.signedIn the
\* session's signedIn.  called, lostRace and wrote are history: whether the
\* handler called a PgPersistence method, whether the store rejected its
\* write as a duplicate, and the done value that its toggleDoneTodo wrote.
Request(route, sid, todoListId, todoId, title, username, password) ==
  [route |-> route, sid |-> sid, todoListId |-> todoListId, todoId |-> todoId,
   title |-> title, username |-> username, password |-> password,
   store |-> sessions[sid].username, signedIn |-> sessions[sid].signedIn,
   pc |-> "arrived", flash |-> <<>>, called |-> FALSE, lostRace |-> FALSE,
   wrote |-> "nothing"]

Response(r, kind, what, flash) ==
  [route |-> r.route, signedIn |-> r.signedIn, called |-> r.called,
   lostRace |-> r.lostRace, kind |-> kind, what |-> what, flash |-> flash]

NoResponse ==
  [route |-> "none", signedIn |-> FALSE, called |-> FALSE,
   lostRace |-> FALSE, kind |-> "none", what |-> "none", flash |-> <<>>]

\* res.redirect, res.render, and the error handler at the end of todos.js:
\* res.status(404).send(err.message).
Redirect(r, location) == Response(r, "redirect", location, r.flash)
Render(r, view) == Response(r, "render", view, r.flash)
ErrorHandler(r, message) == Response(r, "error", message, r.flash)

NotFound == "Not found."

\* A request arrives.
Arrives == started < MaxRequests /\ started' = started + 1

\* The handler answers before any await.
Answers(response) == resp' = response /\ UNCHANGED reqs

\* The handler calls a PgPersistence method and is suspended in its await.
Awaits(r, pc) ==
  /\ BagCardinality(reqs) < MaxInFlight
  /\ reqs' = reqs (+) SetToBag({[r EXCEPT !.pc = pc, !.called = TRUE]})
  /\ UNCHANGED resp

\* The awaited call of request r resolved; r is suspended in its next call.
Proceeds(r, next) ==
  /\ reqs' = (reqs (-) SetToBag({r})) (+) SetToBag({next})
  /\ UNCHANGED resp

\* The awaited call of request r resolved and the handler answers.
Completes(r, response) ==
  /\ reqs' = reqs (-) SetToBag({r})
  /\ resp' = response

Suspended(route, pc) == {r \in BagToSet(reqs) : r.route = route /\ r.pc = pc}

\* const requiresAuthentication: next is the rest of the route.
requiresAuthentication(r, next) ==
  IF ~r.signedIn THEN Answers(Redirect(r, "/users/signin")) ELSE next

HttpFrame == UNCHANGED <<calls, clients>>
NoSignIn == UNCHANGED <<sessions, lastSignIn>>

PathListIds == 1..(db.listSerial + 1)
PathTodoIds == 1..(db.todoSerial + 1)

\* app.get("/")
GetRoot ==
  \E sid \in SessionIds :
    LET r == Request("GET /", sid, 0, 0, <<>>, "", "") IN
    /\ Arrives /\ Answers(Redirect(r, "/lists"))
    /\ UNCHANGED db /\ NoSignIn /\ HttpFrame

\* app.get("/lists")
GetLists ==
  \E sid \in SessionIds :
    LET r == Request("GET /lists", sid, 0, 0, <<>>, "", "") IN
    /\ Arrives /\ requiresAuthentication(r, Awaits(r, "sortedTodoLists"))
    /\ UNCHANGED db /\ NoSignIn /\ HttpFrame

GetLists_sortedTodoLists ==
  \E r \in Suspended("GET /lists", "sortedTodoLists") :
    \E todoLists \in sortedTodoLists(db, r.store) :
      /\ Completes(r, Render(r, "lists"))
      /\ UNCHANGED <<db, started>> /\ NoSignIn /\ HttpFrame

\* app.get("/lists/new")
GetListsNew ==
  \E sid \in SessionIds :
    LET r == Request("GET /lists/new", sid, 0, 0, <<>>, "", "") IN
    /\ Arrives /\ requiresAuthentication(r, Answers(Render(r, "new-list")))
    /\ UNCHANGED db /\ NoSignIn /\ HttpFrame

\* app.get("/users/signin")
GetSignin ==
  \E sid \in SessionIds :
    LET r == Request("GET /users/signin", sid, 0, 0, <<>>, "", "") IN
    /\ Arrives
    /\ Answers(Render([r EXCEPT !.flash = <<Flash("info", "Please sign in.")>>], "signin"))
    /\ UNCHANGED db /\ NoSignIn /\ HttpFrame

\* A slip of the sign-out handler: only signedIn is deleted.
signout_keepsUsername(session) == [session EXCEPT !.signedIn = FALSE]

\* app.post("/users/signout"): delete req.session.username; delete
\* req.session.signedIn.
signout(session) == [session EXCEPT !.username = NoUsername, !.signedIn = FALSE]

PostSignout ==
  \E sid \in SessionIds :
    LET r == Request("POST /users/signout", sid, 0, 0, <<>>, "", "") IN
    /\ Arrives /\ Answers(Redirect(r, "/users/signin"))
    /\ sessions' = [sessions EXCEPT ![sid] = signout(sessions[sid])]
    /\ lastSignIn' = [lastSignIn EXCEPT ![sid] = NoUsername]
    /\ UNCHANGED db /\ HttpFrame

\* app.post("/lists")
PostLists ==
  \E sid \in SessionIds, title \in FormListTitles :
    LET r == Request("POST /lists", sid, 0, 0, trim(title), "", "")
        errors == listTitleErrors(r.title)
    IN /\ Arrives
       /\ requiresAuthentication(r,
            IF errors # <<>>
              THEN Answers(Render([r EXCEPT !.flash = errors], "new-list"))
              ELSE Awaits(r, "existsTodoListTitle"))
       /\ UNCHANGED db /\ NoSignIn /\ HttpFrame

UniqueFlash == <<Flash("error", "The list title must be unique.")>>

PostLists_existsTodoListTitle ==
  \E r \in Suspended("POST /lists", "existsTodoListTitle") :
    /\ IF existsTodoListTitle(db, r.store, r.title)
         THEN Completes(r, Render([r EXCEPT !.flash = UniqueFlash], "new-list"))
         ELSE Proceeds(r, [r EXCEPT !.pc = "createTodoList"])
    /\ UNCHANGED <<db, started>> /\ NoSignIn /\ HttpFrame

\* What the create handler answers once createTodoList settled with out.
PostLists_created(r, out) ==
  IF out.kind = "throw" THEN ErrorHandler(r, out.error.message)
  ELSE IF ~out.val THEN ErrorHandler(r, "Failed to create todo list.")
  ELSE Redirect([r EXCEPT !.flash = <<Flash("success", "The todo list has been created.")>>],
                "/lists")

PostLists_createTodoList ==
  \E r \in Suspended("POST /lists", "createTodoList") :
    LET created == createTodoList(db, r.store, r.title)
        lost == InsertTodoList(db, r.store, r.title).out = Throw(UniqueViolation)
    IN /\ db' = created.db
       /\ Completes(r, PostLists_created([r EXCEPT !.lostRace = lost], created.out))
       /\ UNCHANGED started /\ NoSignIn /\ HttpFrame

\* app.get("/lists/:todoListId")
GetList ==
  \E sid \in SessionIds, l \in PathListIds :
    LET r == Request("GET /lists/:todoListId", sid, l, 0, <<>>, "", "") IN
    /\ Arrives /\ requiresAuthentication(r, Awaits(r, "loadTodoList"))
    /\ UNCHANGED db /\ NoSignIn /\ HttpFrame

GetList_loadTodoList ==
  \E r \in Suspended("GET /lists/:todoListId", "loadTodoList") :
    \E todoList \in loadTodoList(db, r.store, r.todoListId) :
      /\ IF todoList = Undefined
           THEN Completes(r, ErrorHandler(r, NotFound))
           ELSE Proceeds(r, [r EXCEPT !.pc = "sortedTodos"])
      /\ UNCHANGED <<db, started>> /\ NoSignIn /\ HttpFrame

GetList_sortedTodos ==
  \E r \in Suspended("GET /lists/:todoListId", "sortedTodos") :
    \E todos \in sortedTodos(db, r.store, [id |-> r.todoListId]) :
      /\ Completes(r, Render(r, "list"))
      /\ UNCHANGED <<db, started>> /\ NoSignIn /\ HttpFrame

\* app.post("/lists/:todoListId/todos/:todoId/toggle")
PostToggle ==
  \E sid \in SessionIds, l \in PathListIds, t \in PathTodoIds :
    LET r == Request("POST toggle", sid, l, t, <<>>, "", "") IN
    /\ Arrives /\ requiresAuthentication(r, Awaits(r, "toggleDoneTodo"))
    /\ UNCHANGED db /\ NoSignIn /\ HttpFrame

PostToggle_toggleDoneTodo ==
  \E r \in Suspended("POST toggle", "toggleDoneTodo") :
    LET toggled == toggleDoneTodo(db, r.store, r.todoListId, r.todoId)
        written == {t \in toggled.db.todos \ db.todos : t.id = r.todoId}
    IN
    /\ db' = toggled.db
    /\ IF ~toggled.out.val
         THEN Completes(r, ErrorHandler(r, NotFound))
         ELSE Proceeds(r, [r EXCEPT !.pc = "loadTodo",
                                    !.wrote = IF \A t \in written : t.done
                                                THEN "done" ELSE "not done"])
    /\ UNCHANGED started /\ NoSignIn /\ HttpFrame

\* What the toggle handler answers once loadTodo resolved with todo: reading
\* todo.done of undefined throws a TypeError.
PostToggle_loaded(r, todo) ==
  IF todo = Undefined
    THEN ErrorHandler(r, "Cannot read properties of undefined (reading 'done')")
  ELSE IF todo.done
    THEN Redirect([r EXCEPT !.flash = <<Flash("success", "marked done.")>>],
                  "/lists/:todoListId")
  ELSE Redirect([r EXCEPT !.flash = <<Flash("success", "marked as NOT done!")>>],
                "/lists/:todoListId")

PostToggle_loadTodo ==
  \E r \in Suspended("POST toggle", "loadTodo") :
    \E todo \in loadTodo(db, r.store, r.todoListId, r.todoId) :
      /\ Completes(r, PostToggle_loaded(r, todo))
      /\ UNCHANGED <<db, started>> /\ NoSignIn /\ HttpFrame

\* app.post("/lists/:todoListId/todos/:todoId/destroy")
PostDestroyTodo ==
  \E sid \in SessionIds, l \in PathListIds, t \in PathTodoIds :
    LET r == Request("POST todo destroy", sid, l, t, <<>>, "", "") IN
    /\ Arrives /\ requiresAuthentication(r, Awaits(r, "removeTodoFromTodoList"))
    /\ UNCHANGED db /\ NoSignIn /\ HttpFrame

PostDestroyTodo_removeTodoFromTodoList ==
  \E r \in Suspended("POST todo destroy", "removeTodoFromTodoList") :
    LET deleted == removeTodoFromTodoList(db, r.store, r.todoListId, r.todoId) IN
    /\ db' = deleted.db
    /\ IF ~deleted.out.val
         THEN Completes(r, ErrorHandler(r, NotFound))
         ELSE Completes(r, Redirect(
                [r EXCEPT !.flash = <<Flash("success", "The todo has been deleted.")>>],
                "/lists/:todoListId"))
    /\ UNCHANGED started /\ NoSignIn /\ HttpFrame

\* app.post("/lists/:todoListId/complete_all")
PostCompleteAll ==
  \E sid \in SessionIds, l \in PathListIds :
    LET r == Request("POST complete_all", sid, l, 0, <<>>, "", "") IN
    /\ Arrives /\ requiresAuthentication(r, Awaits(r, "markAllDone"))
    /\ UNCHANGED db /\ NoSignIn /\ HttpFrame

PostCompleteAll_markAllDone ==
  \E r \in Suspended("POST complete_all", "markAllDone") :
    LET allDone == markAllDone(db, r.store, r.todoListId) IN
    /\ db' = allDone.db
    /\ IF ~allDone.out.val
         THEN Completes(r, ErrorHandler(r, NotFound))
         ELSE Completes(r, Redirect(
                [r EXCEPT !.flash = <<Flash("success", "All todos have been marked as done.")>>],
                "/lists/:todoListId"))
    /\ UNCHANGED started /\ NoSignIn /\ HttpFrame

\* app.post("/lists/:todoListId/todos"): the route has no
\* requiresAuthentication.
PostTodos ==
  \E sid \in SessionIds, l \in PathListIds, title \in FormTodoTitles :
    LET r == Request("POST /lists/:todoListId/todos", sid, l, 0, trim(title), "", "") IN
    /\ Arrives /\ Awaits(r, "loadTodoList")
    /\ UNCHANGED db /\ NoSignIn /\ HttpFrame

\* A slip of the add-todo handler: "if (!todoList) throw new Error("Not
\* found.")" left out.
PostTodos_loaded_noCheck(r, todoList) ==
  LET errors == todoTitleErrors(r.title) IN
  IF errors # <<>>
    THEN Proceeds(r, [r EXCEPT !.pc = "sortedTodos", !.flash = errors])
  ELSE Proceeds(r, [r EXCEPT !.pc = "addTodo"])

\* How the add-todo handler goes on once loadTodoList resolved with
\* todoList.
PostTodos_loaded(r, todoList) ==
  LET errors == todoTitleErrors(r.title) IN
  IF todoList = Undefined
    THEN Completes(r, ErrorHandler(r, NotFound))
  ELSE IF errors # <<>>
    THEN Proceeds(r, [r EXCEPT !.pc = "sortedTodos", !.flash = errors])
  ELSE Proceeds(r, [r EXCEPT !.pc = "addTodo"])

PostTodos_loadTodoList ==
  \E r \in Suspended("POST /lists/:todoListId/todos", "loadTodoList") :
    \E todoList \in loadTodoList(db, r.store, r.todoListId) :
      /\ PostTodos_loaded(r, todoList)
      /\ UNCHANGED <<db, started>> /\ NoSignIn /\ HttpFrame

PostTodos_sortedTodos ==
  \E r \in Suspended("POST /lists/:todoListId/todos", "sortedTodos") :
    \E todos \in sortedTodos(db, r.store, [id |-> r.todoListId]) :
      /\ Completes(r, Render(r, "list"))
      /\ UNCHANGED <<db, started>> /\ NoSignIn /\ HttpFrame

\* What the add-todo handler answers once addTodo settled with out.
PostTodos_added(r, out) ==
  IF out.kind = "throw" THEN ErrorHandler(r, out.error.message)
  ELSE IF ~out.val THEN ErrorHandler(r, NotFound)
  ELSE Redirect([r EXCEPT !.flash = <<Flash("success", "The todo has been created.")>>],
                "/lists/:todoListId")

PostTodos_addTodo ==
  \E r \in Suspended("POST /lists/:todoListId/todos", "addTodo") :
    LET added == addTodo(db, r.store, r.title, r.todoListId) IN
    /\ db' = added.db
    /\ Completes(r, PostTodos_added(r, added.out))
    /\ UNCHANGED started /\ NoSignIn /\ HttpFrame

\* app.get("/lists/:todoListId/edit")
GetEdit ==
  \E sid \in SessionIds, l \in PathListIds :
    LET r == Request("GET /lists/:todoListId/edit", sid, l, 0, <<>>, "", "") IN
    /\ Arrives
    /\ requiresAuthentication(r,
         IF sessions[sid].signedIn THEN Awaits(r, "loadTodoList")
         ELSE Answers(Redirect(r, "/lists")))
    /\ UNCHANGED db /\ NoSignIn /\ HttpFrame

GetEdit_loadTodoList ==
  \E r \in Suspended("GET /lists/:todoListId/edit", "loadTodoList") :
    \E todoList \in loadTodoList(db, r.store, r.todoListId) :
      /\ IF todoList = Undefined
           THEN Completes(r, ErrorHandler(r, NotFound))
           ELSE Completes(r, Render(r, "edit-list"))
      /\ UNCHANGED <<db, started>> /\ NoSignIn /\ HttpFrame

\* app.post("/lists/:todoListId/destroy")
PostDestroyList ==
  \E sid \in SessionIds, l \in PathListIds :
    LET r == Request("POST /lists/:todoListId/destroy", sid, l, 0, <<>>, "", "") IN
    /\ Arrives /\ requiresAuthentication(r, Awaits(r, "deleteTodoList"))
    /\ UNCHANGED db /\ NoSignIn /\ HttpFrame

PostDestroyList_deleteTodoList ==
  \E r \in Suspended("POST /lists/:todoListId/destroy", "deleteTodoList") :
    LET deleted == deleteTodoList(db, r.store, r.todoListId) IN
    /\ db' = deleted.db
    /\ IF ~deleted.out.val
         THEN Completes(r, ErrorHandler(r, NotFound))
         ELSE Completes(r, Redirect(
                [r EXCEPT !.flash = <<Flash("success", "Todo list deleted.")>>], "/lists"))
    /\ UNCHANGED started /\ NoSignIn /\ HttpFrame

\* app.post("/lists/:todoListId/edit")
PostEdit ==
  \E sid \in SessionIds, l \in PathListIds, title \in FormListTitles :
    LET r == Request("POST /lists/:todoListId/edit", sid, l, 0, trim(title), "", "")
        errors == listTitleErrors(r.title)
    IN /\ Arrives
       /\ requiresAuthentication(r,
            IF errors # <<>>
              THEN Awaits([r EXCEPT !.flash = errors], "rerenderEditList")
              ELSE Awaits(r, "existsTodoListTitle"))
       /\ UNCHANGED db /\ NoSignIn /\ HttpFrame

PostEdit_existsTodoListTitle ==
  \E r \in Suspended("POST /lists/:todoListId/edit", "existsTodoListTitle") :
    /\ IF existsTodoListTitle(db, r.store, r.title)
         THEN Proceeds(r, [r EXCEPT !.pc = "rerenderEditList", !.flash = UniqueFlash])
         ELSE Proceeds(r, [r EXCEPT !.pc = "setTitle"])
    /\ UNCHANGED <<db, started>> /\ NoSignIn /\ HttpFrame

\* The catch of the rename handler for an error thrown in its try block with
\* the given message: a uniqueness violation is flashed and the form is
\* rendered again by a rerenderEditList() that is not awaited; any other
\* error is thrown on to the error handler.
PostEdit_setTitle ==
  \E r \in Suspended("POST /lists/:todoListId/edit", "setTitle") :
    LET updated == setTitle(db, r.store, r.todoListId, r.title) IN
    /\ db' = updated.db
    /\ IF updated.out.kind = "throw"
         THEN IF isUniqueConstraintViolation(updated.out.error)
                THEN Proceeds(r, [r EXCEPT !.pc = "rerenderEditList not awaited",
                                           !.flash = UniqueFlash, !.lostRace = TRUE])
                ELSE Completes(r, ErrorHandler(r, updated.out.error.message))
         ELSE IF ~updated.out.val
           THEN Completes(r, ErrorHandler(r, NotFound))
         ELSE Completes(r, Redirect(
                [r EXCEPT !.flash = <<Flash("success", "Todo list updated.")>>],
                "/lists/:todoListId"))
    /\ UNCHANGED started /\ NoSignIn /\ HttpFrame

\* await rerenderEditList() inside the try block: its "Not found." is caught,
\* is no uniqueness violation, and is thrown on to the error handler.
PostEdit_rerenderEditList ==
  \E r \in Suspended("POST /lists/:todoListId/edit", "rerenderEditList") :
    \E todoList \in loadTodoList(db, r.store, r.todoListId) :
      /\ IF todoList = Undefined
           THEN Completes(r, ErrorHandler(r, NotFound))
           ELSE Completes(r, Render(r, "edit-list"))
      /\ UNCHANGED <<db, started>> /\ NoSignIn /\ HttpFrame

\* rerenderEditList() in the catch block is not awaited: its "Not found." is
\* a rejection nobody handles, and the request gets no response.
PostEdit_rerenderEditListNotAwaited ==
  \E r \in Suspended("POST /lists/:todoListId/edit", "rerenderEditList not awaited") :
    \E todoList \in loadTodoList(db, r.store, r.todoListId) :
      /\ IF todoList = Undefined
           THEN Completes(r, Response(r, "no response", "unhandled rejection", r.flash))
           ELSE Completes(r, Render(r, "edit-list"))
      /\ UNCHANGED <<db, started>> /\ NoSignIn /\ HttpFrame

\* app.post("/users/signin")
PostSignin ==
  \E sid \in SessionIds, username \in FormUsernames, password \in FormPasswords :
    LET r == Request("POST /users/signin", sid, 0, 0, <<>>, username, password) IN
    /\ Arrives /\ Awaits(r, "authenticated")
    /\ UNCHANGED db /\ NoSignIn /\ HttpFrame

\* req.session.username = username; req.session.signedIn = true, when
\* authenticated() resolved true; else the session is not touched.
signin(session, isAuthenticated, username) ==
  IF ~isAuthenticated THEN session
  ELSE [session EXCEPT !.username = username, !.signedIn = TRUE]

PostSignin_authenticated ==
  \E r \in Suspended("POST /users/signin", "authenticated") :
    LET username == trimUsername(r.username)
        isAuthenticated == authenticated(username, r.password)
    IN /\ sessions' = [sessions EXCEPT ![r.sid] = signin(sessions[r.sid], isAuthenticated, username)]
       /\ lastSignIn' = [lastSignIn EXCEPT ![r.sid] =
                           IF isAuthenticated THEN username ELSE lastSignIn[r.sid]]
       /\ IF ~isAuthenticated
            THEN Completes(r, Render([r EXCEPT !.flash = <<Flash("error", "Invalid Credentials")>>],
                                     "signin"))
            ELSE Completes(r, Redirect([r EXCEPT !.flash = <<Flash("info", "Welcome!")>>],
                                       "/lists"))
       /\ UNCHANGED <<db, started>> /\ HttpFrame

NextHttp ==
  \/ GetRoot
  \/ GetLists
  \/ GetLists_sortedTodoLists
  \/ GetListsNew
  \/ GetSignin
  \/ PostSignout
  \/ PostLists
  \/ PostLists_existsTodoListTitle
  \/ PostLists_createTodoList
  \/ GetList
  \/ GetList_loadTodoList
  \/ GetList_sortedTodos
  \/ PostToggle
  \/ PostToggle_toggleDoneTodo
  \/ PostToggle_loadTodo
  \/ PostDestroyTodo
  \/ PostDestroyTodo_removeTodoFromTodoList
  \/ PostCompleteAll
  \/ PostCompleteAll_markAllDone
  \/ PostTodos
  \/ PostTodos_loadTodoList
  \/ PostTodos_sortedTodos
  \/ PostTodos_addTodo
  \/ GetEdit
  \/ GetEdit_loadTodoList
  \/ PostDestroyList
  \/ PostDestroyList_deleteTodoList
  \/ PostEdit
  \/ PostEdit_existsTodoListTitle
  \/ PostEdit_setTitle
  \/ PostEdit_rerenderEditList
  \/ PostEdit_rerenderEditListNotAwaited
  \/ PostSignin
  \/ PostSignin_authenticated

Init ==
  /\ db = EmptyDb
  /\ calls = [c \in DbCalls |-> NotCalled]
  /\ clients = {}
  /\ sessions = StoredSessions
  /\ lastSignIn = [sid \in SessionIds |-> sessions[sid].username]
  /\ reqs = EmptyBag
  /\ resp = NoResponse
  /\ started = 0

Next ==
  \/ Svc_toggleDoneTodo
  \/ Svc_removeTodoFromTodoList
  \/ Svc_markAllDone
  \/ Svc_addTodo
  \/ Svc_deleteTodoList
  \/ Svc_createTodoList
  \/ Svc_setTitle

Spec == Init /\ [][Next]_vars

SpecDb == Init /\ [][NextDb]_vars

SpecHttp == Init /\ [][NextHttp]_vars

(***************************************************************************)
(* Claims.                                                                 *)
(***************************************************************************)
ListsOf(d, u) == {l \in d.todolists : l.username = u}
TodosOf(d, u) == {t \in d.todos : t.username = u}
Range(f) == {f[i] : i \in DOMAIN f}

\* Every row of a returned list (the list and its attached todos) was
\* created under u.
ListCreatedUnder(r, u) ==
  r.creator = u /\ \A i \in 1..Len(r.todos) : r.todos[i].creator = u

\* C1: read isolation.  In every state reached by any sequence of service
\* calls by any identities, whatever a read method bound to B returns
\* (sortedTodoLists, loadTodoList, loadTodo, sortedTodos) was created under
\* B, and existsTodoListTitle bound to B reports a title only when a list
\* created under B holds it.
C1_ReadIsolation ==
  \A B \in Usernames :
    /\ \A r \in sortedTodoLists(db, B) :
         \A i \in 1..Len(r) : ListCreatedUnder(r[i], B)
    /\ \A l \in ArgListIds :
         /\ \A r \in loadTodoList(db, B, l) :
              r # Undefined => ListCreatedUnder(r, B)
         /\ \A r \in sortedTodos(db, B, [id |-> l]) :
              \A i \in 1..Len(r) : r[i].creator = B
         /\ \A t \in ArgTodoIds :
              \A r \in loadTodo(db, B, l, t) : r # Undefined => r.creator = B
    /\ \A title \in ListTitles :
         existsTodoListTitle(db, B, title)
           => \E l \in db.todolists : l.title = title /\ l.creator = B

\* C1's case: A and B both created a list with a todo in it, B's reads of
\* its own list return it, and B's read of A's list id returns nothing.
C1_Witness ==
  \E A, B \in Usernames : \E la, lb \in db.todolists : \E ta, tb \in db.todos :
    /\ A # B /\ la.creator = A /\ lb.creator = B
    /\ ta.creator = A /\ ta.todolist_id = la.id
    /\ tb.creator = B /\ tb.todolist_id = lb.id
    /\ Undefined \notin loadTodoList(db, B, lb.id)
    /\ loadTodoList(db, B, la.id) = {Undefined}
    /\ loadTodo(db, B, la.id, ta.id) = {Undefined}
    /\ \A r \in sortedTodoLists(db, B) : Len(r) = 1

ListOwnedBy(d, l, u) == \E row \in d.todolists : row.id = l /\ row.username = u
TodoOwnedBy(d, t, u) == \E row \in d.todos : row.id = t /\ row.username = u

\* The call returned false and left every row owned by A as it was.
RefusedFor(d, r, A) ==
  /\ r.out = Return(FALSE)
  /\ ListsOf(r.db, A) = ListsOf(d, A)
  /\ TodosOf(r.db, A) = TodosOf(d, A)

\* C2: write isolation.  When B calls toggleDoneTodo, removeTodoFromTodoList,
\* markAllDone, deleteTodoList or setTitle with the id of a list or of a todo
\* owned by A # B, the call returns false and every list and todo owned by A
\* is unchanged.
C2_WriteIsolation ==
  \A A, B \in Usernames : \A l \in ArgListIds :
    A # B =>
      /\ ListOwnedBy(db, l, A) =>
           /\ RefusedFor(db, markAllDone(db, B, l), A)
           /\ RefusedFor(db, deleteTodoList(db, B, l), A)
           /\ \A title \in ListTitles : RefusedFor(db, setTitle(db, B, l, title), A)
      /\ \A t \in ArgTodoIds :
           ListOwnedBy(db, l, A) \/ TodoOwnedBy(db, t, A) =>
             /\ RefusedFor(db, toggleDoneTodo(db, B, l, t), A)
             /\ RefusedFor(db, removeTodoFromTodoList(db, B, l, t), A)

\* C3: ownership consistency of todos.  In every reachable state each todo's
\* username is the username of the list its todolist_id refers to.
C3_TodoOwnerIsListOwner ==
  \A t \in db.todos :
    \E l \in db.todolists : l.id = t.todolist_id /\ l.username = t.username

\* C4: createTodoList(T) by U returns true and adds exactly one list (U, T)
\* iff U holds no list titled T, whatever lists titled T other identities
\* hold; otherwise it returns false, raises nothing and leaves the rows of
\* both tables as they were.  A second createTodoList(T) by U returns false.
C4_CreateTodoList ==
  \A U \in Usernames : \A T \in ListTitles :
    LET r == createTodoList(db, U, T)
        again == createTodoList(r.db, U, T)
    IN /\ IF \E l \in db.todolists : l.username = U /\ l.title = T
            THEN /\ r.out = Return(FALSE)
                 /\ r.db.todolists = db.todolists
            ELSE /\ r.out = Return(TRUE)
                 /\ db.todolists \subseteq r.db.todolists
                 /\ Cardinality(r.db.todolists \ db.todolists) = 1
                 /\ \A l \in r.db.todolists \ db.todolists :
                      l.username = U /\ l.title = T
       /\ r.db.todos = db.todos
       /\ again.out = Return(FALSE)
       /\ again.db.todolists = r.db.todolists

\* C4's case: U and V both hold a list titled T (the second of the two
\* creates returned true although the other identity held the title), so a
\* further createTodoList(T) by U is a duplicate.
C4_Witness ==
  \E U, V \in Usernames : \E T \in ListTitles :
    /\ U # V
    /\ \E l \in db.todolists : l.username = U /\ l.title = T
    /\ \E l \in db.todolists : l.username = V /\ l.title = T
    /\ createTodoList(db, U, T).out = Return(FALSE)

\* C5: a uniqueness violation is never surfaced as an error response.  A
\* create-list or rename request whose write the store rejected as a
\* duplicate (its pre-check existsTodoListTitle had passed) ends with the
\* flash "The list title must be unique." and a re-render of its form.
C5_UniquenessNeverAnError ==
  resp.lostRace =>
    /\ resp.kind = "render"
    /\ resp.what = (IF resp.route = "POST /lists" THEN "new-list" ELSE "edit-list")
    /\ resp.flash = UniqueFlash

\* The routes that the claim lets through without a session: the sign-in
\* page and the sign-in submission.
SignInRoutes == {"GET /users/signin", "POST /users/signin"}

\* C6: every route except the sign-in page and the sign-in submission
\* requires an authenticated session.  A request to any other route that
\* arrived while session.signedIn was not set is answered by a redirect to
\* /users/signin, without a call of a PgPersistence method and without an
\* error response.
C6_RequiresAuthentication ==
  resp.route \notin SignInRoutes \cup {"none"} /\ ~resp.signedIn =>
    /\ resp.kind = "redirect"
    /\ resp.what = "/users/signin"
    /\ ~resp.called

\* C7: session life cycle.  In every state, for every session, signedIn is
\* set iff username is set, and both are set exactly when a sign-in
\* submission that authenticated() accepted has not been followed by a
\* sign-out: username is then the username of the latest such submission.
\* (lastSignIn changes only when authenticated() accepts and on sign-out,
\* so a failed attempt that touched the session, or a sign-out that left a
\* field, breaks the equality.)
C7_SessionLifecycle ==
  \A sid \in SessionIds :
    /\ sessions[sid].signedIn <=> sessions[sid].username # NoUsername
    /\ sessions[sid].signedIn <=> lastSignIn[sid] # NoUsername
    /\ sessions[sid].username = lastSignIn[sid]

\* C7's case: a session that was signed out, then signed in to as bob, and
\* then saw a sign-in attempt fail is still bob's; the other session, which
\* alice had signed in to, has been signed out.
C7_Witness ==
  /\ sessions["s2"] = [username |-> "bob", signedIn |-> TRUE]
  /\ sessions["s1"] = NewSession
  /\ resp.route = "POST /users/signin" /\ resp.kind = "render"

\* C8: dbQuery releases its connection unconditionally: whenever a call of
\* dbQuery is over, with a result or with an error, the connection it opened
\* is closed.
C8_ConnectionReleased ==
  \A c \in DbCalls : calls[c].pc = "over" => c \notin clients

\* The list objects the service hands out in a state.
ListObjects ==
  UNION {Range(r) : r \in UNION {sortedTodoLists(db, u) : u \in Usernames}}
    \cup UNION {loadTodoList(db, u, l) \ {Undefined} : u \in Usernames, l \in ArgListIds}

\* C9: isDoneTodoList(list) is true iff list.todos is non-empty and every
\* todo in it is done; it is false for a list with no todos.
C9_IsDoneTodoList ==
  \A list \in ListObjects :
    /\ isDoneTodoList(list)
         <=> /\ Cardinality(Range(list.todos)) >= 1
             /\ ~ \E todo \in Range(list.todos) : ~todo.done
    /\ list.todos = <<>> => ~isDoneTodoList(list)

\* C9's case: a list without todos, which is not done, and a list whose two
\* todos are both done, which is, are handed out.
C9_Witness ==
  /\ \E list \in ListObjects : list.todos = <<>> /\ ~isDoneTodoList(list)
  /\ \E list \in ListObjects : Len(list.todos) = 2 /\ isDoneTodoList(list)

\* A list object without its todos property: the fetched row.
RowOf(list) ==
  [id |-> list.id, title |-> list.title, username |-> list.username,
   creator |-> list.creator]

\* C10: sortedTodoLists() returns all lists of the identity, each once, each
\* with exactly the todos of that list attached, every not-done list before
\* every done list, and each of the two groups in ascending case-insensitive
\* title order.
C10_SortedTodoLists ==
  \A u \in Usernames : \A r \in sortedTodoLists(db, u) :
    /\ {RowOf(r[i]) : i \in 1..Len(r)} = ListsOf(db, u)
    /\ Len(r) = Cardinality(ListsOf(db, u))
    /\ \A i \in 1..Len(r) :
         /\ Range(r[i].todos) = {t \in TodosOf(db, u) : t.todolist_id = r[i].id}
         /\ Len(r[i].todos) = Cardinality(Range(r[i].todos))
    /\ \A i, j \in 1..Len(r) :
         i < j =>
           /\ ~(isDoneTodoList(r[i]) /\ ~isDoneTodoList(r[j]))
           /\ isDoneTodoList(r[i]) = isDoneTodoList(r[j])
                => StrLeq(lower(r[i].title), lower(r[j].title))

\* C10's case: three lists are returned, two not done and then a done one
\* whose title sorts before theirs.
C10_Witness ==
  \E u \in Usernames : \E r \in sortedTodoLists(db, u) :
    /\ Len(r) = 3
    /\ ~isDoneTodoList(r[1]) /\ ~isDoneTodoList(r[2]) /\ isDoneTodoList(r[3])
    /\ ~StrLeq(lower(r[1].title), lower(r[3].title))

\* C11: sortedTodos(list) returns exactly the todos of that list owned by
\* the identity, each once, every not-done todo before every done todo and
\* each of the two groups in ascending case-insensitive title order.
C11_SortedTodos ==
  \A u \in Usernames : \A l \in ArgListIds :
    \A r \in sortedTodos(db, u, [id |-> l]) :
      /\ Range(r) = {t \in db.todos : t.todolist_id = l /\ t.username = u}
      /\ Len(r) = Cardinality(Range(r))
      /\ \A i, j \in 1..Len(r) :
           i < j =>
             /\ ~(r[i].done /\ ~r[j].done)
             /\ r[i].done = r[j].done
                  => StrLeq(lower(r[i].title), lower(r[j].title))

\* C11's case: three todos are returned, "a" and "B" not done and then a
\* done "a": the done todo comes last although its title sorts first, and
\* "a" comes before "B" although "B" is the smaller character code.
C11_Witness ==
  \E u \in Usernames : \E l \in ArgListIds :
    \E r \in sortedTodos(db, u, [id |-> l]) :
      /\ Len(r) = 3
      /\ r[1].title = <<97>> /\ ~r[1].done
      /\ r[2].title = <<66>> /\ ~r[2].done
      /\ r[3].title = <<97>> /\ r[3].done

\* U holds a list titled T.
HoldsTitle(d, U, T) == \E l \in d.todolists : l.username = U /\ l.title = T

\* C12: create/exists round trip.  In every state, for every identity U and
\* title T: createTodoList(T) by U completes with a result, and right after
\* it existsTodoListTitle(T) by U is true; existsTodoListTitle(T) by U is
\* true exactly when U holds a list titled T.  And a title that
\* existsTodoListTitle reports for U is still reported after every step
\* that is not a deleteTodoList or a setTitle by U.
C12_CreateExistsRoundTrip ==
  /\ [](\A U \in Usernames : \A T \in ListTitles :
          LET r == createTodoList(db, U, T)
          IN /\ r.out \in {Return(TRUE), Return(FALSE)}
             /\ existsTodoListTitle(r.db, U, T)
             /\ existsTodoListTitle(db, U, T) <=> HoldsTitle(db, U, T))
  /\ [][\A U \in Usernames : \A T \in ListTitles :
          existsTodoListTitle(db, U, T) /\ ~existsTodoListTitle(db', U, T)
            => \E l \in ArgListIds :
                 \/ db' = deleteTodoList(db, U, l).db
                 \/ \E title \in ListTitles : db' = setTitle(db, U, l, title).db]_vars

\* C12's case: U created a list titled T and V, who holds another list,
\* did not; a further createTodoList(T) by U returns false, and the title
\* exists for U after it and does not exist for V.
C12_Witness ==
  \E U, V \in Usernames : \E T \in ListTitles :
    LET r == createTodoList(db, U, T)
    IN /\ U # V /\ ListsOf(db, V) # {}
       /\ r.out = Return(FALSE)
       /\ existsTodoListTitle(r.db, U, T)
       /\ ~existsTodoListTitle(r.db, V, T)

\* C13: delete/load round trip.  In every state, for every identity U and
\* list id: when deleteTodoList(id) by U returns true, loadTodoList(id) by U
\* right after it returns undefined; and loadTodoList of an id that U has
\* no list for returns undefined (a value, not an error).  And once
\* loadTodoList(id) by U returns undefined for an id that the store has
\* drawn, it returns undefined after every further step, so the list stays
\* absent for any following sequence of operations.
C13_DeleteLoadRoundTrip ==
  /\ [](\A U \in Usernames : \A l \in ArgListIds :
          LET r == deleteTodoList(db, U, l)
          IN /\ r.out = Return(TRUE) => loadTodoList(r.db, U, l) = {Undefined}
             /\ ~ListOwnedBy(db, l, U) => loadTodoList(db, U, l) = {Undefined})
  /\ [][\A U \in Usernames : \A l \in 1..db.listSerial :
          loadTodoList(db, U, l) = {Undefined}
            => loadTodoList(db', U, l) = {Undefined}]_vars

\* C13's case: U holds a list with a todo, which loadTodoList returns;
\* deleteTodoList of it by U returns true and loadTodoList then returns
\* undefined, as it does for the id of a list that another identity holds.
C13_Witness ==
  \E U \in Usernames : \E l, other \in ArgListIds :
    LET r == deleteTodoList(db, U, l)
    IN /\ \E t \in db.todos : t.todolist_id = l /\ t.username = U
       /\ Undefined \notin loadTodoList(db, U, l)
       /\ r.out = Return(TRUE)
       /\ loadTodoList(r.db, U, l) = {Undefined}
       /\ \E row \in db.todolists : row.id = other /\ row.username # U
       /\ loadTodoList(r.db, U, other) = {Undefined}

\* C14: list deletion cascades to its todos.  In every state each todo
\* refers to a list that exists, and when deleteTodoList(id) returns true
\* no todo with todolist_id = id remains (whoever created it) and
\* loadTodo(id, t) returns undefined for every t and every identity.
C14_DeleteCascades ==
  /\ \A t \in db.todos : \E l \in db.todolists : l.id = t.todolist_id
  /\ \A U \in Usernames : \A l \in ArgListIds :
       LET r == deleteTodoList(db, U, l)
       IN r.out = Return(TRUE) =>
            /\ ~ \E t \in r.db.todos : t.todolist_id = l
            /\ \A V \in Usernames : \A t \in ArgTodoIds :
                 loadTodo(r.db, V, l, t) = {Undefined}

\* C14's case: a list with two todos is deleted, and with it both todos,
\* while another list stays.
C14_Witness ==
  \E U \in Usernames : \E l \in ArgListIds :
    LET r == deleteTodoList(db, U, l)
    IN /\ Cardinality({t \in db.todos : t.todolist_id = l}) = 2
       /\ r.out = Return(TRUE)
       /\ r.db.todos = {}
       /\ r.db.todolists # {}

\* The todos of list l that U owns.
TodosIn(d, l, U) == {t \in d.todos : t.todolist_id = l /\ t.username = U}

Answered(r) == reqs' = reqs (-) SetToBag({r})

\* C16: markAllDone resolves to false only if the todo list does not exist
\* for the caller.  Whenever the complete_all handler's markAllDone resolves
\* for a list that exists and is owned by the session's identity (with or
\* without todos), it resolves to true and the handler does not answer
\* "Not found.".
C16_MarkAllDoneOnOwnList ==
  [][\A r \in Suspended("POST complete_all", "markAllDone") :
       Answered(r) /\ ListOwnedBy(db, r.todoListId, r.store) =>
         /\ markAllDone(db, r.store, r.todoListId).out = Return(TRUE)
         /\ resp' # ErrorHandler(r, NotFound)]_vars

\* C17: toggleDoneTodo(listId, todoId) by U returns true iff a todo with
\* that id is in that list and owned by U.  Then that todo's done is negated,
\* every other todo and every list is unchanged, and a second toggle gives
\* back the store as it was.  Otherwise (no such todo, a todo of another
\* list, a todo of another identity) it returns false and the store is
\* unchanged.
C17_ToggleDoneTodo ==
  \A U \in Usernames : \A l \in ArgListIds : \A t \in ArgTodoIds :
    LET r == toggleDoneTodo(db, U, l, t)
        target == {todo \in db.todos :
                     todo.id = t /\ todo.todolist_id = l /\ todo.username = U}
    IN /\ r.out = Return(target # {})
       /\ r.db.todolists = db.todolists
       /\ \A todo \in target :
            /\ r.db.todos = (db.todos \ {todo}) \cup {[todo EXCEPT !.done = ~todo.done]}
            /\ toggleDoneTodo(r.db, U, l, t) = [db |-> db, out |-> Return(TRUE)]
       /\ target = {} => r.db = db

\* C17's case: U holds two lists and a todo in the first; toggling it
\* through the first list returns true and changes the store, toggling it
\* through the second returns false and changes nothing, and a todo of
\* another identity is there to be left alone.
C17_Witness ==
  \E U \in Usernames : \E l1, l2 \in ArgListIds : \E t \in ArgTodoIds :
    /\ l1 # l2 /\ ListOwnedBy(db, l1, U) /\ ListOwnedBy(db, l2, U)
    /\ toggleDoneTodo(db, U, l1, t).out = Return(TRUE)
    /\ toggleDoneTodo(db, U, l1, t).db # db
    /\ toggleDoneTodo(db, U, l2, t) = [db |-> db, out |-> Return(FALSE)]
    /\ \E other \in db.todos : other.username # U

\* C18: authenticated(username, password) returns false when the users
\* table has no row for the supplied username and otherwise what comparing
\* the password with that user's stored hash gives; whatever identity the
\* service was constructed with; and the store is left as it was.  Whenever
\* the sign-in handler's call of authenticated resolves, the handler signs
\* in (redirect) exactly in that case, and the store is unchanged.
C18_Authenticated ==
  [][\A r \in Suspended("POST /users/signin", "authenticated") :
       Answered(r) =>
         LET username == trimUsername(r.username)
         IN /\ resp'.kind = "redirect"
                 <=> /\ username \in DOMAIN UsersTable
                     /\ UsersTable[username] = bcryptHash(r.password)
            /\ resp'.kind \in {"redirect", "render"}
            /\ db' = db]_vars

\* C18's case: a sign-in with bob's credentials, submitted on the session
\* that alice was signed in to (the service constructed with alice's
\* identity), succeeded: the session is bob's.
C18_Witness ==
  /\ resp.route = "POST /users/signin" /\ resp.kind = "redirect" /\ resp.signedIn
  /\ sessions["s1"] = [username |-> "bob", signedIn |-> TRUE]
  /\ sessions["s2"] = NewSession /\ lastSignIn["s2"] = NoUsername
  /\ started = 1

\* C19, as stated: through the HTTP handlers addTodo is never executed for
\* a list id that the requesting session's identity does not own at the
\* time of the insert.  Whenever the add-todo handler's addTodo runs, the
\* list of the request is a list of the request's identity.
C19_AddTodoOnlyOnOwnedList ==
  [][\A r \in Suspended("POST /lists/:todoListId/todos", "addTodo") :
       Answered(r) => ListOwnedBy(db, r.todoListId, r.store)]_vars

\* C19, amended: through the HTTP handlers a todo is only ever stored in a
\* list owned by the session identity.  In every state each todo is in a
\* list of the identity that created it; and a step of the add-todo
\* handler's addTodo that stores a todo stores one todo, under the
\* request's identity, in the request's list, which that identity owns at
\* the time of the insert.  (addTodo may run for a list deleted since the
\* handler's loadTodoList: the store then rejects the insert.)
C19_TodoStoredOnlyInOwnedList ==
  /\ [](\A t \in db.todos :
          /\ t.creator \in Usernames
          /\ \E l \in db.todolists : l.id = t.todolist_id /\ l.creator = t.creator)
  /\ [][\A r \in Suspended("POST /lists/:todoListId/todos", "addTodo") :
          Answered(r) /\ db'.todos # db.todos =>
            /\ ListOwnedBy(db, r.todoListId, r.store)
            /\ db.todos \subseteq db'.todos
            /\ \A t \in db'.todos \ db.todos :
                 t.todolist_id = r.todoListId /\ t.username = r.store
            /\ resp'.kind = "redirect"]_vars

\* C19's case: the add-todo handler's addTodo ran for a list that was
\* deleted after the handler's loadTodoList had found it; the store
\* rejected the insert and no todo was stored.
C19_Witness ==
  /\ resp.route = "POST /lists/:todoListId/todos"
  /\ resp.kind = "error" /\ resp.what = ForeignKeyViolation.message
  /\ db.todoSerial = 1 /\ db.todos = {}

\* C20: the toggle handler runs toggleDoneTodo and then loadTodo as two
\* store steps.  Whenever toggleDoneTodo returned true, the handler finishes
\* with a redirect and a success flash whose text says the done value that
\* this request's toggle wrote, whatever toggles and deletes of the same
\* todo run between the two steps; it never fails on an absent todo.
C20_ToggleFlashMatchesWrite ==
  [][\A r \in Suspended("POST toggle", "loadTodo") :
       Answered(r) =>
         /\ resp'.kind = "redirect"
         /\ resp'.flash = <<Flash("success", IF r.wrote = "done"
                                                THEN "marked done."
                                                ELSE "marked as NOT done!")>>]_vars

====
